---- MODULE Spec2Model ----
(***************************************************************************)
(* Model of icue_link_telemetry_decoder.py: the command framing            *)
(* (create_command_packet), the write/read transaction with typed-response *)
(* matching (send_command), the sensor-block decoder (parse_sensors) and   *)
(* the session driver (main) with its polling loop and teardown.           *)
(*                                                                         *)
(* Bytes are naturals 0..255 and a bytes object is a sequence of them.     *)
(* Python's None and the empty bytes object are both the empty sequence:   *)
(* read_packet never returns b'' and every test the code makes on a        *)
(* packet ("not response", "not packet", "if resp") treats the two alike.  *)
(***************************************************************************)
EXTENDS Integers, Sequences, FiniteSets, TLC

\* ---- bounds of the model ------------------------------------------------

\* Polling cycles of the while-True loop that a behaviour may complete.
MaxCycles == 2

\* The retry window READ_TIMEOUT_SEC, in clock ticks.
TimeoutTicks == 2

\* Reads of one send_command call that may happen without the clock moving.
MaxReads == 3

\* create_command_packet inputs: how far len(header + command + data) may
\* pass PACKET_SIZE, and how far below it the long inputs start.
MaxOver == 2

\* create_command_packet inputs: the longest data payload.
MaxDataLen == 2

\* parse_sensors inputs: the most complete sensor blocks in a packet, and
\* the largest sensor count declared.
MaxBlocks == 3

MaxCount == 4

\* ---- program constants ---------------------------------------------------

PACKET_SIZE == 512

CMD_HEADER == <<0, 0, 1>>
CMD_ENTER_SOFTWARE_MODE == <<1, 3, 0, 2>>
CMD_EXIT_SOFTWARE_MODE == <<1, 3, 0, 1>>
CMD_OPEN_ENDPOINT == <<13, 1>>
CMD_CLOSE_ENDPOINT == <<5, 1, 1>>
CMD_READ == <<8, 1>>

ENDPOINT_SPEEDS == <<23>>
ENDPOINT_TEMPS == <<33>>

DATA_TYPE_SPEEDS == <<37, 0>>
DATA_TYPE_TEMPS == <<16, 0>>

ERROR_CODE_INDEX == 4
DATA_TYPE_START_INDEX == 5
\* Mutant: the count is the byte after the two tag bytes.
SENSOR_COUNT_INDEX_AfterTag == DATA_TYPE_START_INDEX + 2

SENSOR_COUNT_INDEX == 6
SENSOR_DATA_START_INDEX == 7
SENSOR_BLOCK_SIZE == 3
TEMP_SCALING_FACTOR == 10

None == <<>>

\* ---- Python's bytes operations --------------------------------------------

Min(a, b) == IF a <= b THEN a ELSE b

\* bytearray(n): n zero bytes.
Zeros(n) == [i \in 1..n |-> 0]

\* b[i] with a 0-based index inside the buffer.
ByteAt(b, i) == b[i + 1]

\* b[lo:hi]: 0-based, hi exclusive, both ends clamped to the buffer.
Slice(b, lo, hi) == SubSeq(b, Min(lo, Len(b)) + 1, Min(hi, Len(b)))

\* b[lo:]
SliceFrom(b, lo) == SubSeq(b, Min(lo, Len(b)) + 1, Len(b))

\* packet[:n] = full on a bytearray: the first min(n, len) bytes are
\* replaced by the whole of full, whatever its length.
SliceAssign(packet, n, full) == full \o SliceFrom(packet, n)

\* Mutant: the value is unpacked unsigned ('<H').
UnpackInt16LE_Unsigned(data, off) == ByteAt(data, off) + 256 * ByteAt(data, off + 1)

\* struct.unpack_from('<h', data, off): little-endian signed 16 bit.
UnpackInt16LE(data, off) ==
    LET u == ByteAt(data, off) + 256 * ByteAt(data, off + 1)
    IN  IF u >= 32768 THEN u - 65536 ELSE u

\* ---- create_command_packet -------------------------------------------------

\* Mutant: the frame is not padded (bytes(full) returned).
create_command_packet_Unpadded(command, data) == CMD_HEADER \o command \o data

create_command_packet(command, data) ==
    LET packet == Zeros(PACKET_SIZE)
        full == CMD_HEADER \o command \o data
    IN  SliceAssign(packet, Len(full), full)

\* ---- parse_sensors ---------------------------------------------------------

\* A reading: raw / den when present (den 1: the raw integer of a speed,
\* den TEMP_SCALING_FACTOR: a temperature), or the absent reading (None).
Reading(raw, den) == [present |-> TRUE, num |-> raw, den |-> den]

NoReading == [present |-> FALSE, num |-> 0, den |-> 1]

\* Mutant: the loop stops one byte early (off + 3 >= len(data)), losing a
\* block that ends with the data.
RECURSIVE ParseLoop_StopsEarly(_, _, _, _, _)
ParseLoop_StopsEarly(data, count, i, is_temp, sensors) ==
    LET off == i * SENSOR_BLOCK_SIZE
    IN  IF i >= count THEN sensors
        ELSE IF off + 3 >= Len(data) THEN sensors
        ELSE LET status == ByteAt(data, off)
                 raw == UnpackInt16LE(data, off + 1)
                 r == IF status = 0
                      THEN Reading(raw, IF is_temp THEN TEMP_SCALING_FACTOR ELSE 1)
                      ELSE NoReading
             IN  ParseLoop_StopsEarly(data, count, i + 1, is_temp, Append(sensors, r))

\* Mutant: a block with a non-zero status adds nothing to the list.
RECURSIVE ParseLoop_SkipsAbsent(_, _, _, _, _)
ParseLoop_SkipsAbsent(data, count, i, is_temp, sensors) ==
    LET off == i * SENSOR_BLOCK_SIZE
    IN  IF i >= count THEN sensors
        ELSE IF off + 2 >= Len(data) THEN sensors
        ELSE LET status == ByteAt(data, off)
                 raw == UnpackInt16LE(data, off + 1)
             IN  ParseLoop_SkipsAbsent(data, count, i + 1, is_temp,
                     IF status = 0
                     THEN Append(sensors, Reading(raw, IF is_temp THEN TEMP_SCALING_FACTOR ELSE 1))
                     ELSE sensors)

RECURSIVE ParseLoop(_, _, _, _, _)
ParseLoop(data, count, i, is_temp, sensors) ==
    LET off == i * SENSOR_BLOCK_SIZE
    IN  IF i >= count THEN sensors
        ELSE IF off + 2 >= Len(data) THEN sensors
        ELSE LET status == ByteAt(data, off)
                 raw == UnpackInt16LE(data, off + 1)
                 r == IF status = 0
                      THEN Reading(raw, IF is_temp THEN TEMP_SCALING_FACTOR ELSE 1)
                      ELSE NoReading
             IN  ParseLoop(data, count, i + 1, is_temp, Append(sensors, r))

parse_sensors(packet, is_temp) ==
    IF packet = None \/ Len(packet) <= SENSOR_DATA_START_INDEX THEN <<>>
    ELSE ParseLoop(SliceFrom(packet, SENSOR_DATA_START_INDEX),
                   ByteAt(packet, SENSOR_COUNT_INDEX), 0, is_temp, <<>>)

\* ---- the transport ----------------------------------------------------------

\* A response frame of PACKET_SIZE bytes with the given leading bytes.
Pad(prefix) == prefix \o Zeros(PACKET_SIZE - Len(prefix))

\* Error code 0, tag 25 00, then 02 and the blocks [00 64 00] [01 00 00].
FrameSpeeds == Pad(<<0, 0, 1, 0, 0, 37, 0, 2, 0, 100, 0, 1, 0, 0>>)

\* Error code 0, tag 10 00, then 01 and the block [00 33 FF] (raw -205).
FrameTemps == Pad(<<0, 0, 1, 0, 0, 16, 0, 1, 0, 51, 255>>)

\* Error code 3 under the speed tag.
FrameError == Pad(<<0, 0, 1, 0, 3, 37, 0, 2, 0, 100, 0, 1, 0, 0>>)

\* Error code 0, tag 25 02: byte 6 counts two blocks from byte 7 on.
FrameCounted == Pad(<<0, 0, 1, 0, 0, 37, 2, 0, 100, 0, 1, 0, 0>>)

\* What one device.read(PACKET_SIZE) may give: nothing (the device is in
\* non-blocking mode), or one report of the device, PACKET_SIZE bytes long.
\* FirstResponse and RetryResponse also say what a shorter buffer would do.
ReadResults == {None, FrameSpeeds, FrameTemps, FrameError, FrameCounted}

\* ---- state ------------------------------------------------------------------

VARIABLES
    pc,             \* main: the line about to run ("done": main has ended)
    spc,            \* send_command: "idle", its line about to run, or "done"
    ret,            \* send_command: the value returned to main
    start,          \* send_command: the clock reading of line 74
    now,            \* the latest reading of time.monotonic()
    t_pkt, s_pkt,   \* main: the frames of lines 123 and 129
    temps, speeds,  \* main: the reading lists of lines 125 and 131
    cycle,          \* polling cycles completed
    exc,            \* the exception main is propagating ("none": none)
    closes,         \* calls of device.close()
    writes,         \* history: what each device.write was handed
    reads,          \* history: what each read since the last write returned
    interruptedAt,  \* history: <<pc, spc>> where KeyboardInterrupt arrived
    pk_pc,          \* create_command_packet alone: "input", "done" or "idle"
    pk_command, pk_data,    \* its arguments
    pk_out,                 \* its return value
    ps_pc,          \* parse_sensors alone: "input", "done" or "idle"
    ps_packet, ps_is_temp,  \* its arguments
    ps_out                  \* its return value

mainVars == <<pc, spc, ret, start, now, t_pkt, s_pkt, temps, speeds, cycle,
              exc, closes, writes, reads, interruptedAt>>

pkVars == <<pk_pc, pk_command, pk_data, pk_out>>

psVars == <<ps_pc, ps_packet, ps_is_temp, ps_out>>

vars == <<pc, spc, ret, start, now, t_pkt, s_pkt, temps, speeds, cycle,
          exc, closes, writes, reads, interruptedAt,
          pk_pc, pk_command, pk_data, pk_out,
          ps_pc, ps_packet, ps_is_temp, ps_out>>

\* The lines of main that call send_command.
CallSites == {"L117", "L121", "L122", "L123", "L124",
              "L127", "L128", "L129", "L130", "L142"}

\* The lines of main inside the try block.
TryLines == {"L117", "L121", "L122", "L123", "L124", "L125",
             "L127", "L128", "L129", "L130", "L131", "L133", "L137"}

\* Mutant: the cleanup close of the temperature group names the speed
\* endpoint.
CallArgs_ClosesOtherEndpoint(line) ==
    CASE line = "L117" -> [command |-> CMD_ENTER_SOFTWARE_MODE, data |-> <<>>, wait_for_type |-> None]
      [] line = "L121" -> [command |-> CMD_CLOSE_ENDPOINT, data |-> ENDPOINT_TEMPS, wait_for_type |-> None]
      [] line = "L122" -> [command |-> CMD_OPEN_ENDPOINT, data |-> ENDPOINT_TEMPS, wait_for_type |-> None]
      [] line = "L123" -> [command |-> CMD_READ, data |-> <<>>, wait_for_type |-> DATA_TYPE_TEMPS]
      [] line = "L124" -> [command |-> CMD_CLOSE_ENDPOINT, data |-> ENDPOINT_SPEEDS, wait_for_type |-> None]
      [] line = "L127" -> [command |-> CMD_CLOSE_ENDPOINT, data |-> ENDPOINT_SPEEDS, wait_for_type |-> None]
      [] line = "L128" -> [command |-> CMD_OPEN_ENDPOINT, data |-> ENDPOINT_SPEEDS, wait_for_type |-> None]
      [] line = "L129" -> [command |-> CMD_READ, data |-> <<>>, wait_for_type |-> DATA_TYPE_SPEEDS]
      [] line = "L130" -> [command |-> CMD_CLOSE_ENDPOINT, data |-> ENDPOINT_SPEEDS, wait_for_type |-> None]
      [] line = "L142" -> [command |-> CMD_EXIT_SOFTWARE_MODE, data |-> <<>>, wait_for_type |-> None]

\* The arguments of the call on each line.
CallArgs(line) ==
    CASE line = "L117" -> [command |-> CMD_ENTER_SOFTWARE_MODE, data |-> <<>>, wait_for_type |-> None]
      [] line = "L121" -> [command |-> CMD_CLOSE_ENDPOINT, data |-> ENDPOINT_TEMPS, wait_for_type |-> None]
      [] line = "L122" -> [command |-> CMD_OPEN_ENDPOINT, data |-> ENDPOINT_TEMPS, wait_for_type |-> None]
      [] line = "L123" -> [command |-> CMD_READ, data |-> <<>>, wait_for_type |-> DATA_TYPE_TEMPS]
      [] line = "L124" -> [command |-> CMD_CLOSE_ENDPOINT, data |-> ENDPOINT_TEMPS, wait_for_type |-> None]
      [] line = "L127" -> [command |-> CMD_CLOSE_ENDPOINT, data |-> ENDPOINT_SPEEDS, wait_for_type |-> None]
      [] line = "L128" -> [command |-> CMD_OPEN_ENDPOINT, data |-> ENDPOINT_SPEEDS, wait_for_type |-> None]
      [] line = "L129" -> [command |-> CMD_READ, data |-> <<>>, wait_for_type |-> DATA_TYPE_SPEEDS]
      [] line = "L130" -> [command |-> CMD_CLOSE_ENDPOINT, data |-> ENDPOINT_SPEEDS, wait_for_type |-> None]
      [] line = "L142" -> [command |-> CMD_EXIT_SOFTWARE_MODE, data |-> <<>>, wait_for_type |-> None]

\* Mutant: the cleanup close of the temperature group (line 124) is left out.
AfterCall_NoCleanupClose(line, value) ==
    CASE line = "L117" -> "L121"
      [] line = "L121" -> "L122"
      [] line = "L122" -> "L123"
      [] line = "L123" -> "L125"
      [] line = "L124" -> "L125"
      [] line = "L127" -> "L128"
      [] line = "L128" -> "L129"
      [] line = "L129" -> "L130"
      [] line = "L130" -> "L131"
      [] line = "L142" -> "L143"

\* Mutant: a read that gave no result ends the group at once.
AfterCall_AbortOnNoResult(line, value) ==
    CASE line = "L117" -> "L121"
      [] line = "L121" -> "L122"
      [] line = "L122" -> "L123"
      [] line = "L123" -> IF value = None THEN "L125" ELSE "L124"
      [] line = "L124" -> "L125"
      [] line = "L127" -> "L128"
      [] line = "L128" -> "L129"
      [] line = "L129" -> IF value = None THEN "L131" ELSE "L130"
      [] line = "L130" -> "L131"
      [] line = "L142" -> "L143"

\* Mutant: the session is given up when enter-software-mode gave no result.
AfterCall_NeedsSoftwareMode(line, value) ==
    CASE line = "L117" -> IF value = None THEN "L142" ELSE "L121"
      [] line = "L121" -> "L122"
      [] line = "L122" -> "L123"
      [] line = "L123" -> "L124"
      [] line = "L124" -> "L125"
      [] line = "L127" -> "L128"
      [] line = "L128" -> "L129"
      [] line = "L129" -> "L130"
      [] line = "L130" -> "L131"
      [] line = "L142" -> "L143"

\* The line main runs after the call on `line` has returned `value`: the
\* next line, whatever was returned.
AfterCall(line, value) ==
    CASE line = "L117" -> "L121"
      [] line = "L121" -> "L122"
      [] line = "L122" -> "L123"
      [] line = "L123" -> "L124"
      [] line = "L124" -> "L125"
      [] line = "L127" -> "L128"
      [] line = "L128" -> "L129"
      [] line = "L129" -> "L130"
      [] line = "L130" -> "L131"
      [] line = "L142" -> "L143"

\* What the history keeps of a frame handed to device.write: its length
\* and its leading bytes.
HeadLen == 8

WriteObs(packet) == [len |-> Len(packet), head |-> Slice(packet, 0, HeadLen)]

\* The session starts with the device opened (lines 104-114 done), nothing
\* written or read yet.
InitMain ==
    /\ pc = "L117" /\ spc = "idle" /\ ret = None
    /\ start = 0 /\ now = 0
    /\ t_pkt = None /\ s_pkt = None /\ temps = <<>> /\ speeds = <<>>
    /\ cycle = 0 /\ exc = "none" /\ closes = 0
    /\ writes = <<>> /\ reads = <<>> /\ interruptedAt = <<>>

PkIdle == pk_pc = "idle" /\ pk_command = <<>> /\ pk_data = <<>> /\ pk_out = <<>>

PsIdle == ps_pc = "idle" /\ ps_packet = <<>> /\ ps_is_temp = FALSE /\ ps_out = <<>>

Init == InitMain /\ PkIdle /\ PsIdle

\* ---- send_command ---------------------------------------------------------------

\* Mutant: the error code of the first response is not looked at.
FirstResponse_NoErrorCheck(response, wait_for_type) ==
    IF response = None THEN [kind |-> "return", value |-> None]
    ELSE IF wait_for_type = None THEN [kind |-> "return", value |-> response]
    ELSE IF Slice(response, DATA_TYPE_START_INDEX, DATA_TYPE_START_INDEX + 2) = wait_for_type
         THEN [kind |-> "return", value |-> response]
    ELSE [kind |-> "retry", value |-> None]

\* Mutant: the first valid response is returned, typed call or not.
FirstResponse_NoTagCheck(response, wait_for_type) ==
    IF response = None THEN [kind |-> "return", value |-> None]
    ELSE IF Len(response) <= ERROR_CODE_INDEX THEN [kind |-> "raise", value |-> None]
    ELSE IF ByteAt(response, ERROR_CODE_INDEX) # 0 THEN [kind |-> "return", value |-> None]
    ELSE [kind |-> "return", value |-> response]

\* Lines 63-72, on the first response: return None, return the response,
\* go on to the retry-poll of line 74, or fail on response[ERROR_CODE_INDEX].
FirstResponse(response, wait_for_type) ==
    IF response = None THEN [kind |-> "return", value |-> None]
    ELSE IF Len(response) <= ERROR_CODE_INDEX THEN [kind |-> "raise", value |-> None]
    ELSE IF ByteAt(response, ERROR_CODE_INDEX) # 0 THEN [kind |-> "return", value |-> None]
    ELSE IF wait_for_type = None THEN [kind |-> "return", value |-> response]
    ELSE IF Slice(response, DATA_TYPE_START_INDEX, DATA_TYPE_START_INDEX + 2) = wait_for_type
         THEN [kind |-> "return", value |-> response]
    ELSE [kind |-> "retry", value |-> None]

\* Mutant: the retry-poll takes the first frame with the awaited tag, its
\* error code not looked at.
RetryResponse_NoErrorCheck(resp, wait_for_type) ==
    IF resp = None THEN [kind |-> "retry", value |-> None]
    ELSE IF Slice(resp, DATA_TYPE_START_INDEX, DATA_TYPE_START_INDEX + 2) = wait_for_type
         THEN [kind |-> "return", value |-> resp]
    ELSE [kind |-> "retry", value |-> None]

\* Line 77, on a response of the retry-poll: return it, read on, or fail
\* on resp[ERROR_CODE_INDEX].
RetryResponse(resp, wait_for_type) ==
    IF resp = None THEN [kind |-> "retry", value |-> None]
    ELSE IF Len(resp) <= ERROR_CODE_INDEX THEN [kind |-> "raise", value |-> None]
    ELSE IF /\ ByteAt(resp, ERROR_CODE_INDEX) = 0
            /\ Slice(resp, DATA_TYPE_START_INDEX, DATA_TYPE_START_INDEX + 2) = wait_for_type
         THEN [kind |-> "return", value |-> resp]
    ELSE [kind |-> "retry", value |-> None]

\* Mutant: the loop has no deadline (while True).
WindowOpen_NoDeadline(t, t0) == TRUE

\* Line 75: time.monotonic() - start < READ_TIMEOUT_SEC.
WindowOpen(t, t0) == t - t0 < TimeoutTicks

\* An exception leaving send_command: inside the try block main goes to its
\* finally clause and re-raises after it; inside the finally clause (line
\* 142) main ends at once, line 143 not run.
Raise(e) ==
    /\ exc' = e
    /\ pc' = IF pc \in TryLines THEN "L142" ELSE "done"
    /\ spc' = "idle" /\ ret' = None /\ start' = 0 /\ now' = 0

\* return value
Return(value) ==
    /\ ret' = value /\ spc' = "done"
    /\ UNCHANGED <<pc, exc, start>>

Outcome(o, retryLine) ==
    CASE o.kind = "return" -> Return(o.value) /\ UNCHANGED now
      [] o.kind = "raise" -> Raise("IndexError")
      [] o.kind = "retry" -> /\ spc' = retryLine
                             /\ UNCHANGED <<pc, exc, ret, start, now>>

\* Lines 59-60: build the frame and write it.
SendWrite ==
    /\ pc \in CallSites /\ spc = "idle"
    /\ LET a == CallArgs(pc)
           packet == create_command_packet(a.command, a.data)
       IN  writes' = Append(writes, WriteObs(packet))
    /\ reads' = <<>>
    /\ spc' = "L62"
    /\ UNCHANGED <<pc, ret, start, now, t_pkt, s_pkt, temps, speeds, cycle,
                   exc, closes, interruptedAt>>
    /\ UNCHANGED <<pkVars, psVars>>

\* Lines 62-72: the first read, giving one of `results`, and what it decides.
SendFirstReadFrom(results) ==
    /\ spc = "L62"
    /\ \E response \in results :
          /\ reads' = Append(reads, response)
          /\ Outcome(FirstResponse(response, CallArgs(pc).wait_for_type), "L74")
    /\ UNCHANGED <<t_pkt, s_pkt, temps, speeds, cycle, closes, writes, interruptedAt>>
    /\ UNCHANGED <<pkVars, psVars>>

SendFirstRead == SendFirstReadFrom(ReadResults)

\* Line 74: start = time.monotonic().
SendStartClock ==
    /\ spc = "L74"
    /\ start' = now
    /\ spc' = "L75"
    /\ UNCHANGED <<pc, ret, now, t_pkt, s_pkt, temps, speeds, cycle,
                   exc, closes, writes, reads, interruptedAt>>
    /\ UNCHANGED <<pkVars, psVars>>

\* Line 75 (and 79): the clock is read again, having moved on by d ticks
\* (by at least one once MaxReads reads were made); the loop body is entered
\* while the window is open, and None is returned once it is not.
SendLoopTest ==
    /\ spc = "L75"
    /\ \E d \in 0..TimeoutTicks :
          /\ d = 0 => Len(reads) < MaxReads
          /\ now + d - start <= TimeoutTicks
          /\ now' = now + d
          /\ IF WindowOpen(now + d, start)
             THEN spc' = "L76" /\ UNCHANGED <<pc, exc, ret, start>>
             ELSE Return(None)
    /\ UNCHANGED <<t_pkt, s_pkt, temps, speeds, cycle, closes, writes, reads,
                   interruptedAt>>
    /\ UNCHANGED <<pkVars, psVars>>

\* Mutant: the retry-poll sends the command again before each of its reads.
SendRetryReadFrom_Resends(results) ==
    /\ spc = "L76"
    /\ writes' = Append(writes, writes[Len(writes)])
    /\ \E resp \in results :
          /\ reads' = Append(reads, resp)
          /\ Outcome(RetryResponse(resp, CallArgs(pc).wait_for_type), "L75")
    /\ UNCHANGED <<t_pkt, s_pkt, temps, speeds, cycle, closes, interruptedAt>>
    /\ UNCHANGED <<pkVars, psVars>>

\* Lines 76-78: one read of the retry-poll, giving one of `results`.
SendRetryReadFrom(results) ==
    /\ spc = "L76"
    /\ \E resp \in results :
          /\ reads' = Append(reads, resp)
          /\ Outcome(RetryResponse(resp, CallArgs(pc).wait_for_type), "L75")
    /\ UNCHANGED <<t_pkt, s_pkt, temps, speeds, cycle, closes, writes, interruptedAt>>
    /\ UNCHANGED <<pkVars, psVars>>

SendRetryRead == SendRetryReadFrom(ReadResults)

\* ---- main ---------------------------------------------------------------------

\* The call of line pc has returned: lines 123 and 129 keep the value, the
\* other lines drop it. The clock is re-based (only differences are read).
MainAfterCall ==
    /\ pc \in CallSites /\ spc = "done"
    /\ pc' = AfterCall(pc, ret)
    /\ t_pkt' = IF pc = "L123" THEN ret ELSE t_pkt
    /\ s_pkt' = IF pc = "L129" THEN ret ELSE s_pkt
    /\ spc' = "idle" /\ ret' = None /\ start' = 0 /\ now' = 0
    /\ UNCHANGED <<temps, speeds, cycle, exc, closes, writes, reads, interruptedAt>>
    /\ UNCHANGED <<pkVars, psVars>>

\* Line 125.
MainParseTemps ==
    /\ pc = "L125"
    /\ temps' = parse_sensors(t_pkt, TRUE)
    /\ pc' = "L127"
    /\ UNCHANGED <<spc, ret, start, now, t_pkt, s_pkt, speeds, cycle, exc, closes,
                   writes, reads, interruptedAt>>
    /\ UNCHANGED <<pkVars, psVars>>

\* Line 131.
MainParseSpeeds ==
    /\ pc = "L131"
    /\ speeds' = parse_sensors(s_pkt, FALSE)
    /\ pc' = "L133"
    /\ UNCHANGED <<spc, ret, start, now, t_pkt, s_pkt, temps, cycle, exc, closes,
                   writes, reads, interruptedAt>>
    /\ UNCHANGED <<pkVars, psVars>>

\* Lines 133-136: the line printed (it changes none of the state kept here;
\* every index it takes is guarded by the list being non-empty).
MainReport ==
    /\ pc = "L133"
    /\ cycle' = cycle + 1
    /\ pc' = "L137"
    /\ UNCHANGED <<spc, ret, start, now, t_pkt, s_pkt, temps, speeds, exc, closes,
                   writes, reads, interruptedAt>>
    /\ UNCHANGED <<pkVars, psVars>>

\* Line 137 and back to line 120, for at most MaxCycles cycles.
MainSleep ==
    /\ pc = "L137"
    /\ cycle < MaxCycles
    /\ pc' = "L121"
    /\ UNCHANGED <<spc, ret, start, now, t_pkt, s_pkt, temps, speeds, cycle, exc,
                   closes, writes, reads, interruptedAt>>
    /\ UNCHANGED <<pkVars, psVars>>

\* Mutant: KeyboardInterrupt is caught and main ends, with no finally clause.
Interrupt_NoFinally ==
    /\ pc \in TryLines
    /\ interruptedAt' = <<pc, spc>>
    /\ pc' = "done"
    /\ spc' = "idle" /\ ret' = None /\ start' = 0 /\ now' = 0
    /\ UNCHANGED <<t_pkt, s_pkt, temps, speeds, cycle, exc, closes, writes, reads>>
    /\ UNCHANGED <<pkVars, psVars>>

\* Lines 138-141: KeyboardInterrupt arrives anywhere in the try block, the
\* call in progress (if any) is abandoned and the finally clause is entered.
Interrupt ==
    /\ pc \in TryLines
    /\ interruptedAt' = <<pc, spc>>
    /\ pc' = "L142"
    /\ spc' = "idle" /\ ret' = None /\ start' = 0 /\ now' = 0
    /\ UNCHANGED <<t_pkt, s_pkt, temps, speeds, cycle, exc, closes, writes, reads>>
    /\ UNCHANGED <<pkVars, psVars>>

\* Lines 143-144: device.close(), and main ends.
MainClose ==
    /\ pc = "L143"
    /\ closes' = closes + 1
    /\ pc' = "done"
    /\ UNCHANGED <<spc, ret, start, now, t_pkt, s_pkt, temps, speeds, cycle, exc,
                   writes, reads, interruptedAt>>
    /\ UNCHANGED <<pkVars, psVars>>

Next ==
    \/ SendWrite
    \/ SendFirstRead
    \/ SendStartClock
    \/ SendLoopTest
    \/ SendRetryRead
    \/ MainAfterCall
    \/ MainParseTemps
    \/ MainParseSpeeds
    \/ MainReport
    \/ MainSleep
    \/ Interrupt
    \/ MainClose

Spec == Init /\ [][Next]_vars

\* The statements of a send_command call in progress after its write: the
\* interpreter goes on running them (device.read does not block, the device
\* being in non-blocking mode).
SendStep == SendFirstRead \/ SendStartClock \/ SendLoopTest \/ SendRetryRead

SpecLive == Init /\ [][Next]_vars /\ WF_vars(SendStep)

\* ---- a transport that also gives short buffers ---------------------------------

\* Buffers of 1 .. 6 bytes: the leading bytes of FrameSpeeds.
ShortResults == {SubSeq(FrameSpeeds, 1, n) : n \in 1..(SENSOR_DATA_START_INDEX - 1)}

\* What one device.read(PACKET_SIZE) may give when a report may be shorter
\* than PACKET_SIZE.
RawResults == ShortResults \cup {None, FrameSpeeds, FrameTemps}

SendFirstReadRaw == SendFirstReadFrom(RawResults)

SendRetryReadRaw == SendRetryReadFrom(RawResults)

NextRaw ==
    \/ SendWrite
    \/ SendFirstReadRaw
    \/ SendStartClock
    \/ SendLoopTest
    \/ SendRetryReadRaw
    \/ MainAfterCall
    \/ MainParseTemps
    \/ MainParseSpeeds
    \/ MainReport
    \/ MainSleep
    \/ Interrupt
    \/ MainClose

SpecRaw == Init /\ [][NextRaw]_vars

\* ---- what the claims speak of -----------------------------------------------

\* The wait_for_type of the call in progress (or just returned).
WaitForType == CallArgs(pc).wait_for_type

\* send_command has returned and main has not yet taken the value.
Returned == pc \in CallSites /\ spc = "done"

ErrorCodeOf(frame) == frame[5]

TagOf(frame) == <<frame[6], frame[7]>>

\* A frame was read, with error code 0 and the tag T.
Accepted(frame, T) == frame # None /\ ErrorCodeOf(frame) = 0 /\ TagOf(frame) = T

\* The reads after the first that gave a frame with error code 0 and tag T.
LaterAccepted(T) == {j \in 2..Len(reads) : Accepted(reads[j], T)}

\* The leading HeadLen bytes of a frame that starts with `bytes` and is zero
\* after them, and what the history keeps of such a frame of PACKET_SIZE bytes.
HeadOf(bytes) == [i \in 1..HeadLen |-> IF i <= Len(bytes) THEN bytes[i] ELSE 0]

Written(command, data) ==
    [len |-> PACKET_SIZE, head |-> HeadOf(<<0, 0, 1>> \o command \o data)]

EnterWritten == Written(<<1, 3, 0, 2>>, <<>>)

ExitWritten == Written(<<1, 3, 0, 1>>, <<>>)

CloseWritten(selector) == Written(<<5, 1, 1>>, selector)

OpenWritten(selector) == Written(<<13, 1>>, selector)

ReadWritten == Written(<<8, 1>>, <<>>)

\* The four commands of one sensor group.
GroupWritten(selector) ==
    <<CloseWritten(selector), OpenWritten(selector), ReadWritten, CloseWritten(selector)>>

\* The writes of the k-th polling cycle (the first write is that of line 117).
CycleWrites(k) == SubSeq(writes, 8 * (k - 1) + 2, 8 * k + 1)

ExitWrites == Cardinality({i \in 1..Len(writes) : writes[i] = ExitWritten})

\* ---- C1 ---------------------------------------------------------------------------

\* C1: a call with wait_for_type set whose first frame has error code 0:
\* if that frame's tag is wait_for_type it is returned and nothing more was
\* read; if not, the frame returned is the first later read with error code 0
\* and that tag (empty reads, error frames and other tags skipped, and the
\* reading stops there), and None is returned only when no later read was
\* such a frame and the timeout window has elapsed.
C1_TypedResponse ==
    (/\ Returned /\ WaitForType # None
     /\ reads[1] # None /\ ErrorCodeOf(reads[1]) = 0)
    => IF TagOf(reads[1]) = WaitForType
       THEN ret = reads[1] /\ Len(reads) = 1
       ELSE LET later == LaterAccepted(WaitForType)
            IN  IF later # {}
                THEN /\ later = {Len(reads)}
                     /\ ret = reads[Len(reads)]
                ELSE /\ ret = None
                     /\ now - start >= TimeoutTicks

\* C1's case: the first frame had another tag, then an empty read and an
\* error frame under the awaited tag were skipped, and the awaited frame was
\* returned.
C1_Witness ==
    /\ Returned /\ pc = "L129"
    /\ reads = <<FrameTemps, None, FrameError, FrameSpeeds>>
    /\ ret = FrameSpeeds

\* ---- C2 ---------------------------------------------------------------------------

\* C2: when the first read after the write gave nothing, or a frame whose
\* byte 4 is not 0, the call has read nothing more, does not enter the
\* retry-poll, returns None and raises nothing, with or without wait_for_type.
C2_FirstReadFails ==
    (/\ pc \in CallSites /\ spc # "idle" /\ reads # <<>>
     /\ (reads[1] = None \/ ErrorCodeOf(reads[1]) # 0))
    => /\ spc = "done"
       /\ ret = None
       /\ Len(reads) = 1
       /\ exc = "none"

\* C2's case: a typed read whose first frame carries the awaited tag and a
\* non-zero error code has returned.
C2_Witness ==
    /\ Returned /\ pc = "L129"
    /\ reads = <<FrameError>>
    /\ ret = None

\* ---- C3 ---------------------------------------------------------------------------

\* C3: a frame returned by send_command has byte 4 equal to 0; with
\* wait_for_type set its bytes 5-6 are wait_for_type; with wait_for_type
\* unset it is the first (and only) frame read, whatever its tag.
C3_ReturnedFrame ==
    (Returned /\ ret # None)
    => /\ ErrorCodeOf(ret) = 0
       /\ WaitForType # None => TagOf(ret) = WaitForType
       /\ WaitForType = None => ret = reads[1] /\ Len(reads) = 1

\* C3's case: an untyped call (open-endpoint) has returned a frame whose tag
\* is none of the known ones.
C3_Witness ==
    /\ Returned /\ pc = "L122"
    /\ ret = FrameCounted

\* ---- C4 ---------------------------------------------------------------------------

\* C4: in every completed polling cycle the frames written are the eight
\* commands close, open, read, close for the temperature selector and then
\* close, open, read, close for the speed selector, whatever each step
\* returned.
C4_CycleCommands ==
    /\ \A k \in 1..cycle :
          CycleWrites(k) = GroupWritten(<<33>>) \o GroupWritten(<<23>>)
    /\ pc \in {"L133", "L137"} => Len(writes) = 8 * (cycle + (IF pc = "L133" THEN 1 ELSE 0)) + 1

\* C4's case: two cycles are complete, the later one with no temperature
\* frame and with a speed frame.
C4_Witness ==
    /\ cycle = 2 /\ pc = "L137"
    /\ t_pkt = None /\ s_pkt = FrameSpeeds

\* ---- C5 ---------------------------------------------------------------------------

\* C5: a group whose read (step 3) gave no result has an empty reading list,
\* the cycle still runs all its eight commands, and each group's list is
\* the decoding of its own frame alone.
C5_NoResultIsEmpty ==
    /\ (pc \in {"L127", "L128", "L129"} /\ t_pkt = None) => temps = <<>>
    /\ pc \in {"L133", "L137"}
       => /\ t_pkt = None => temps = <<>>
          /\ s_pkt = None => speeds = <<>>
          /\ temps = parse_sensors(t_pkt, TRUE)
          /\ speeds = parse_sensors(s_pkt, FALSE)
    /\ (pc = "L133" /\ (t_pkt = None \/ s_pkt = None))
       => /\ Len(writes) = 8 * (cycle + 1) + 1
          /\ exc = "none"

\* C5's case: a cycle whose temperature read gave no result and whose speed
\* read gave a frame has reached its report.
C5_Witness ==
    /\ pc = "L133"
    /\ t_pkt = None /\ temps = <<>>
    /\ s_pkt # None

\* ---- C6 ---------------------------------------------------------------------------

\* C6: the exit-software-mode command is never written twice and the
\* transport never closed twice, and once main has ended after an
\* interruption of the polling loop each has happened exactly once.
C6_TeardownOnce ==
    /\ ExitWrites <= 1 /\ closes <= 1
    /\ (pc = "done" /\ interruptedAt # <<>>) => (ExitWrites = 1 /\ closes = 1)

\* C6's case: interrupted between step 3 (read) and step 4 (close) of the
\* temperature group, main has ended.
C6_Witness ==
    /\ pc = "done"
    /\ interruptedAt = <<"L124", "idle">>
    /\ closes = 1

\* ---- C7 ---------------------------------------------------------------------------

IsPollCommand(w) ==
    w \in {CloseWritten(<<33>>), OpenWritten(<<33>>), CloseWritten(<<23>>),
           OpenWritten(<<23>>), ReadWritten}

C7_Order ==
    /\ \A i \in 1..Len(writes) :
          IsPollCommand(writes[i]) => (i > 1 /\ writes[1] = EnterWritten)
    /\ closes > 0 => (writes # <<>> /\ writes[Len(writes)] = ExitWritten)

C7_Steps ==
    /\ (pc = "L117" /\ spc = "done" /\ pc' # pc) => pc' \in {"L121", "L142"}
    /\ (pc = "L117" /\ spc = "done" /\ pc' = "L142") => interruptedAt' # <<>>
    /\ closes > 0 => (writes' = writes /\ reads' = reads)

\* C7: the enter-software-mode frame is written before any close-endpoint,
\* open-endpoint or read frame; whatever that call returns, main goes on to
\* the polling loop (unless interrupted); the exit-software-mode frame is the
\* last frame written when the transport is closed, and after the close
\* nothing is written or read.
C7_SessionBracket == []C7_Order /\ [][C7_Steps]_vars

\* C7's case: a session that polled at least one cycle has ended, the
\* exit-software-mode call having read an error frame, the transport closed.
C7_Witness ==
    /\ pc = "done" /\ closes = 1 /\ cycle >= 1
    /\ writes[1] = EnterWritten
    /\ reads = <<FrameError>>

\* ---- C8 ---------------------------------------------------------------------------

\* C8: when the read command is answered with the frame
\* 00 00 01 00 00 25 00 02 00 64 00 01 00 00 ..., the speed group (awaiting
\* 25 00, not a temperature) has sensor count 2 and the readings 100, absent.
C8_EndToEnd ==
    (pc = "L133" /\ s_pkt = FrameSpeeds)
    => /\ ByteAt(s_pkt, SENSOR_COUNT_INDEX) = 2
       /\ speeds = <<Reading(100, 1), NoReading>>

\* ---- create_command_packet on its own ----------------------------------------

\* n non-zero bytes, so that padding and content never look alike.
Content(n, seed) == [i \in 1..n |-> ((7 * i + seed) % 255) + 1]

\* Command lengths: the opcodes' own (1..4) and those that bring
\* header + command + data to just below, to exactly and to beyond PACKET_SIZE.
CommandLens ==
    (1..4) \cup ((PACKET_SIZE - Len(CMD_HEADER) - MaxDataLen - MaxOver)
                    .. (PACKET_SIZE - Len(CMD_HEADER) + MaxOver))

PacketCommands == {Content(n, seed) : n \in CommandLens, seed \in {1, 2}}

PacketData == {Content(n, seed) : n \in 0..MaxDataLen, seed \in {3, 4}}

\* main is not running; the arguments of one call are chosen.
InitPacket ==
    /\ pc = "done" /\ spc = "idle" /\ ret = None
    /\ start = 0 /\ now = 0
    /\ t_pkt = None /\ s_pkt = None /\ temps = <<>> /\ speeds = <<>>
    /\ cycle = 0 /\ exc = "none" /\ closes = 0
    /\ writes = <<>> /\ reads = <<>> /\ interruptedAt = <<>>
    /\ pk_pc = "input"
    /\ pk_command \in PacketCommands
    /\ pk_data \in PacketData
    /\ pk_out = <<>>
    /\ PsIdle

\* Lines 43-48: the call returns.
PacketCall ==
    /\ pk_pc = "input"
    /\ pk_out' = create_command_packet(pk_command, pk_data)
    /\ pk_pc' = "done"
    /\ UNCHANGED <<pk_command, pk_data>>
    /\ UNCHANGED <<mainVars, psVars>>

NextPacket == PacketCall

SpecPacket == InitPacket /\ [][NextPacket]_vars

\* ---- C9, C10: create_command_packet ---------------------------------------------

PkFull == CMD_HEADER \o pk_command \o pk_data

\* C9: whenever len(header) + len(command) + len(data) <= PACKET_SIZE, the
\* buffer create_command_packet returns has exactly PACKET_SIZE bytes, begins
\* with header, command, data in this order, and is zero from there on.
C9_FrameLayout ==
    (pk_pc = "done" /\ Len(CMD_HEADER) + Len(pk_command) + Len(pk_data) <= PACKET_SIZE)
    => /\ Len(pk_out) = PACKET_SIZE
       /\ \A i \in 1..PACKET_SIZE :
             pk_out[i] = IF i <= Len(CMD_HEADER) THEN CMD_HEADER[i]
                         ELSE IF i <= Len(CMD_HEADER) + Len(pk_command)
                              THEN pk_command[i - Len(CMD_HEADER)]
                         ELSE IF i <= Len(PkFull)
                              THEN pk_data[i - Len(CMD_HEADER) - Len(pk_command)]
                         ELSE 0

\* C9's case: a call whose input fills the frame to the last byte but one,
\* with a command and a data payload, has returned.
C9_Witness ==
    /\ pk_pc = "done"
    /\ Len(pk_data) = 2
    /\ Len(PkFull) = PACKET_SIZE - 1
    /\ pk_out[PACKET_SIZE - 1] # 0 /\ pk_out[PACKET_SIZE] = 0

\* C10: a call with len(header) + len(command) + len(data) > PACKET_SIZE
\* fails and returns no frame, and every buffer that is returned has exactly
\* PACKET_SIZE bytes. (A failed call would leave no return value.)
C10_OversizeRejected ==
    pk_pc = "done"
    => IF Len(PkFull) > PACKET_SIZE THEN pk_out = None
       ELSE Len(pk_out) = PACKET_SIZE

\* ---- C11 --------------------------------------------------------------------------

\* C11: a buffer of 1 .. 6 bytes read from the transport makes neither
\* send_command nor parse_sensors index beyond its end (no IndexError is
\* ever raised), and no reading comes from such a buffer.
C11_ShortBufferHandled ==
    /\ exc = "none"
    /\ pc \in {"L133", "L137"}
       => /\ Len(t_pkt) < SENSOR_DATA_START_INDEX => temps = <<>>
          /\ Len(s_pkt) < SENSOR_DATA_START_INDEX => speeds = <<>>

\* ---- parse_sensors on its own ----------------------------------------------------

\* Sensor blocks: 100, -205 (33 FF), and two with a non-zero status, one of
\* them with the value bytes of -205.
BlockChoices == {<<0, 100, 0>>, <<0, 51, 255>>, <<1, 0, 0>>, <<2, 51, 255>>}

BlockLists == UNION {[1..n -> BlockChoices] : n \in 0..MaxBlocks}

RECURSIVE Flatten(_)
Flatten(blocks) ==
    IF blocks = <<>> THEN <<>> ELSE Head(blocks) \o Flatten(Tail(blocks))

\* A packet: error code 0, tag 25 and the count, then whole blocks and the
\* first 0, 1 or 2 bytes of one more.
ParsePackets ==
    {<<0, 0, 1, 0, 0, 37, count>> \o Flatten(blocks) \o SubSeq(<<0, 7>>, 1, cut) :
        count \in 0..MaxCount, blocks \in BlockLists, cut \in 0..2}

\* The packets parse_sensors is called on: those, no packet, buffers shorter
\* than the header, and whole frames.
ParseInputs == ParsePackets \cup ShortResults \cup ReadResults

\* main is not running; the arguments of one call are chosen.
InitParse ==
    /\ pc = "done" /\ spc = "idle" /\ ret = None
    /\ start = 0 /\ now = 0
    /\ t_pkt = None /\ s_pkt = None /\ temps = <<>> /\ speeds = <<>>
    /\ cycle = 0 /\ exc = "none" /\ closes = 0
    /\ writes = <<>> /\ reads = <<>> /\ interruptedAt = <<>>
    /\ PkIdle
    /\ ps_pc = "input"
    /\ ps_packet \in ParseInputs
    /\ ps_is_temp \in BOOLEAN
    /\ ps_out = <<>>

\* Lines 82-100: the call returns.
ParseCall ==
    /\ ps_pc = "input"
    /\ ps_out' = parse_sensors(ps_packet, ps_is_temp)
    /\ ps_pc' = "done"
    /\ UNCHANGED <<ps_packet, ps_is_temp>>
    /\ UNCHANGED <<mainVars, pkVars>>

NextParse == ParseCall

SpecParse == InitParse /\ [][NextParse]_vars

\* ---- C12, C13, C14: parse_sensors ---------------------------------------------------

\* The bytes after the 7-byte header, the blocks wholly among them, the
\* declared count, and the three bytes of block i (from 1).
PsData == IF Len(ps_packet) > 7 THEN SubSeq(ps_packet, 8, Len(ps_packet)) ELSE <<>>

PsWholeBlocks == Len(PsData) \div 3

PsCount == IF Len(ps_packet) >= 7 THEN ps_packet[7] ELSE 0

PsStatus(i) == PsData[3 * i - 2]

PsLow(i) == PsData[3 * i - 1]

PsHigh(i) == PsData[3 * i]

\* The two's-complement value of the 16 bits high:low.
PsSigned(i) == ((PsLow(i) + 256 * PsHigh(i) + 32768) % 65536) - 32768

\* C12: parse_sensors returns min(count, whole blocks in the data) readings,
\* the i-th being that of block i: a count beyond the data is no failure.
C12_ReadingCount ==
    ps_pc = "done"
    => /\ Len(ps_out) = IF PsCount <= PsWholeBlocks THEN PsCount ELSE PsWholeBlocks
       /\ \A i \in 1..Len(ps_out) :
             /\ ps_out[i].present <=> PsStatus(i) = 0
             /\ ps_out[i].present => ps_out[i].num = PsSigned(i)

\* C12's case: count 3 over two whole blocks (and a cut third) gave two readings.
C12_Witness ==
    /\ ps_pc = "done"
    /\ PsCount = 3 /\ PsWholeBlocks = 2 /\ Len(PsData) = 8
    /\ Len(ps_out) = 2

\* C13: a block with status 0 reads as its two value bytes taken as a
\* little-endian two's-complement 16-bit integer raw: raw itself (den 1) for
\* a speed, raw / 10 (den 10) for a temperature; 33 FF is -205, so -205 and
\* -205 / 10 = -20.5.
C13_ValueDecoding ==
    ps_pc = "done"
    => \A i \in 1..Len(ps_out) :
          PsStatus(i) = 0
          => /\ ps_out[i] = [present |-> TRUE, num |-> PsSigned(i),
                             den |-> IF ps_is_temp THEN 10 ELSE 1]
             /\ (PsLow(i) = 51 /\ PsHigh(i) = 255) => ps_out[i].num = -205

\* C13's case: a temperature block 00 33 FF was decoded to -205 / 10.
C13_Witness ==
    /\ ps_pc = "done" /\ ps_is_temp
    /\ Len(ps_out) >= 1
    /\ PsStatus(1) = 0 /\ PsLow(1) = 51 /\ PsHigh(1) = 255
    /\ ps_out[1] = [present |-> TRUE, num |-> -205, den |-> 10]

\* C14: a whole block with a non-zero status reads as absent whatever its
\* value bytes, and keeps its place: reading i is present exactly when the
\* status of block i is 0.
C14_AbsentReading ==
    ps_pc = "done"
    => \A i \in 1..Len(ps_out) :
          /\ PsStatus(i) # 0 => ps_out[i] = [present |-> FALSE, num |-> 0, den |-> 1]
          /\ PsStatus(i) = 0 => ps_out[i].present

\* C14's case: an absent reading, from a block with value bytes 33 FF,
\* stands between two present ones.
C14_Witness ==
    /\ ps_pc = "done"
    /\ Len(ps_out) = 3
    /\ PsStatus(2) = 2 /\ PsLow(2) = 51 /\ PsHigh(2) = 255
    /\ ps_out[1].present /\ ~ps_out[2].present /\ ps_out[3].present

\* ---- C15 --------------------------------------------------------------------------

C15_State ==
    /\ spc = "L62" => reads = <<>>
    /\ spc \in {"L74", "L75", "L76", "done"} => Len(reads) >= 1

C15_Steps ==
    /\ writes' # writes
       => /\ spc = "idle" /\ spc' = "L62"
          /\ Len(writes') = Len(writes) + 1
          /\ reads' = <<>>
    /\ (spc = "idle" /\ spc' # "idle") => Len(writes') = Len(writes) + 1
    /\ (reads' # reads /\ writes' = writes)
       => /\ spc \in {"L62", "L76"}
          /\ Len(reads') = Len(reads) + 1

\* C15: a call of send_command writes one frame, as its first step and
\* before any read; every later step of the call, the reads of the
\* retry-poll among them, leaves the frames written as they are.
C15_OneWritePerCall == []C15_State /\ [][C15_Steps]_vars

\* C15's case: a typed call has returned the awaited frame from the third
\* read of its retry-poll.
C15_Witness ==
    /\ Returned /\ pc = "L123"
    /\ Len(reads) = 4
    /\ ret = FrameTemps

\* ---- C16 --------------------------------------------------------------------------

InCall == spc \in {"L62", "L74", "L75", "L76"}

C16_State ==
    /\ spc = "L76" => now - start < TimeoutTicks
    /\ (Returned /\ WaitForType # None /\ \A j \in 1..Len(reads) : ~Accepted(reads[j], WaitForType))
       => ret = None

C16_Steps ==
    (spc = "L75" /\ pc' = pc /\ now' - start >= TimeoutTicks)
    => (spc' = "done" /\ ret' = None)

\* C16: a call in progress comes to its end (it returns, or main is
\* interrupted); no read of the retry-poll starts once the window is found
\* elapsed, the call returning None there; and a typed call that read no
\* frame with error code 0 and the awaited tag returns None.
C16_Terminates ==
    /\ InCall ~> ~InCall
    /\ []C16_State
    /\ [][C16_Steps]_vars

\* C16's case: a typed call has returned None with the window elapsed, all
\* reads of its retry-poll having been empty.
C16_Witness ==
    /\ Returned /\ pc = "L129"
    /\ reads = <<FrameCounted, None, None>>
    /\ ret = None
    /\ now - start >= TimeoutTicks

\* ---- C17 --------------------------------------------------------------------------

\* C17: no frame is written with no read since the frame written before it.
C17_NoPipelining == [][(writes' # writes /\ writes # <<>>) => reads # <<>>]_vars

\* ---- C18 --------------------------------------------------------------------------

\* C18: the count byte of every frame a typed call returns is the second
\* byte of the awaited tag, which is 0 for both tags: both reading lists are
\* empty in every state.
C18_CountIsTagByte ==
    /\ (Returned /\ WaitForType # None /\ ret # None)
       => /\ ByteAt(ret, SENSOR_COUNT_INDEX) = WaitForType[2]
          /\ ByteAt(ret, SENSOR_COUNT_INDEX) = 0
    /\ temps = <<>>
    /\ speeds = <<>>

\* C18's case: a cycle in which both reads returned their frame, each with
\* sensor blocks in it, has decoded both.
C18_Witness ==
    /\ pc = "L133"
    /\ t_pkt = FrameTemps /\ s_pkt = FrameSpeeds
    /\ temps = <<>> /\ speeds = <<>>

\* ---- C19, C20 ---------------------------------------------------------------------

\* An open-endpoint frame for the selector was written before write i, and
\* no close-endpoint frame for it between the two.
OpenPending(selector, i) ==
    \E j \in 1..(i - 1) :
        /\ writes[j] = OpenWritten(selector)
        /\ \A k \in (j + 1)..(i - 1) : writes[k] # CloseWritten(selector)

\* C19: an open-endpoint frame for one selector is never written while an
\* open for the other selector is pending.
C19_OneEndpointOpen ==
    \A i \in 1..Len(writes) :
        /\ writes[i] = OpenWritten(<<33>>) => ~OpenPending(<<23>>, i)
        /\ writes[i] = OpenWritten(<<23>>) => ~OpenPending(<<33>>, i)

\* C19's case: main was interrupted in the read of the speed group, both
\* endpoints having been opened in turn, and has ended.
C19_Witness ==
    /\ pc = "done"
    /\ interruptedAt = <<"L129", "L62">>
    /\ \E i \in 1..Len(writes) : writes[i] = OpenWritten(<<33>>)
    /\ \E i \in 1..Len(writes) : writes[i] = OpenWritten(<<23>>)

\* C20: when the exit-software-mode frame is written no open is pending,
\* for either selector.
C20_ClosedAtExit ==
    \A i \in 1..Len(writes) :
        writes[i] = ExitWritten
        => (~OpenPending(<<33>>, i) /\ ~OpenPending(<<23>>, i))

====
